---- MODULE Spec2Model ----
(***************************************************************************)
(* smallstring::Buffer (src/include/smallstring/smallstring.hpp): a        *)
(* grow-as-needed byte buffer made of a std::vector<char> (m_buffer) and   *)
(* the number of bytes in use (m_length).  Two Buffer objects, A and B,    *)
(* are modelled so that copy and move between buffers can be observed.     *)
(*   Spec      one Buffer under push, pop, clear, ensure_fit, drop_memory  *)
(*   SpecMove  two Buffers, with copy and move between them                *)
(*   SpecInt   push(T number) of every value of a signed and an unsigned T *)
(*   SpecView  construction, find, pop(find(..)), push of the buffer's own *)
(*             bytes                                                       *)
(* Bytes are their ASCII codes; std::size_t is an unsigned integer of      *)
(* SizeBits bits, and the integral T pushed has IntBits bits.              *)
(***************************************************************************)
EXTENDS Integers, Sequences, FiniteSets, TLC

\* Largest number of bytes the allocator grants a vector in Spec.
MaxCap == 3
\* Largest number of bytes the allocator grants a vector in SpecMove.
MaxCapMove == 2
\* Largest number of bytes the allocator grants a vector in SpecInt.
MaxCapInt == 6
\* Width of std::size_t, wide enough for the default capacity.
SizeBits == 9
\* Width of the integral types T (intN_t, uintN_t) pushed as numbers.
IntBits == 8
\* Longest slice handed to push(ptr, sz) in Spec and in SpecInt.
MaxSlice == 2
\* Longest slice handed to push(ptr, sz) in SpecMove.
MaxSliceMove == 1
\* Largest capacity asked of the constructor, and longest content, in SpecView.
MaxCapView == 3

VARIABLES
    bufs,      \* bufs[n]: the Buffer object n, [m_length, m_buffer]
    crashed,   \* the process died on an access outside every allocation
    max_size,  \* the largest size a resize is granted; larger ones throw
    last,      \* the last operation: its name, buffer, argument, pre-state
    pushed     \* pushed[n]: the slices pushed onto n since its construction

vars == <<bufs, crashed, max_size, last, pushed>>

Names == {"A", "B"}

Other(n) == IF n = "A" THEN "B" ELSE "A"

\* The bytes of the slices pushed: '1' and '2'.
Alphabet == {49, 50}

\* What a read outside the storage is shown as in a view.
OOB == -1

\* std::size_t arithmetic wraps modulo 2^SizeBits.
SizeMod == 2 ^ SizeBits

SIZE_MAX == SizeMod - 1

WrapSize(x) == x % SizeMod

\* n value-initialised chars.
Zeros(n) == [i \in 1..n |-> 0]

\* The capacity of a Buffer constructed without an argument.
DefaultCapacity == 256

\* A constructor that reserves the storage without sizing it.
Buffer_reserve(cap) == [m_length |-> 0, m_buffer |-> <<>>]

\* explicit Buffer(std::size_t capacity) : m_buffer(capacity), m_length = 0
Buffer(cap) == [m_length |-> 0, m_buffer |-> Zeros(cap)]

capacity(buf) == Len(buf.m_buffer)

length(buf) == buf.m_length

remaining(buf) == WrapSize(capacity(buf) - length(buf))

\* std::string_view(head(), length()): the bytes at offsets [0, m_length).
view(buf) ==
    [i \in 1..buf.m_length |->
        IF i <= Len(buf.m_buffer) THEN buf.m_buffer[i] ELSE OOB]

\* m_length <= capacity(): the view lies inside the storage.
InStorage(buf) == buf.m_length <= Len(buf.m_buffer)

\* std::vector::resize(n): keeps the first n chars, appends zero chars.
Resize(s, n) ==
    IF n <= Len(s) THEN SubSeq(s, 1, n) ELSE s \o Zeros(n - Len(s))

\* new_capacity of ensure_fit: m_length + to_add in std::size_t.
NewCapacity(buf, to_add) == WrapSize(buf.m_length + to_add)

\* ensure_fit returns normally: it does not resize, or the resize is granted.
FitGranted(buf, to_add, limit) ==
    NewCapacity(buf, to_add) > capacity(buf) => NewCapacity(buf, to_add) <= limit

\* ensure_fit resizing whenever the sizes differ.
ensure_fit_exact(buf, to_add) ==
    IF NewCapacity(buf, to_add) # capacity(buf)
    THEN [buf EXCEPT !.m_buffer = Resize(@, NewCapacity(buf, to_add))]
    ELSE buf

ensure_fit(buf, to_add) ==
    IF NewCapacity(buf, to_add) > capacity(buf)
    THEN [buf EXCEPT !.m_buffer = Resize(@, NewCapacity(buf, to_add))]
    ELSE buf

\* The copy of push going to head() instead of tail().
CopyAtHead(storage, at, s) ==
    [i \in 1..Len(storage) |-> IF i <= Len(s) THEN s[i] ELSE storage[i]]

\* std::copy(ptr, ptr + sz, tail()): s written at offsets [at, at + Len(s)).
CopyAt(storage, at, s) ==
    [i \in 1..Len(storage) |->
        IF i > at /\ i <= at + Len(s) THEN s[i - at] ELSE storage[i]]

\* push(const char* ptr, std::size_t sz), s the sz bytes at ptr.
push(buf, s) ==
    LET fit == ensure_fit(buf, Len(s))
    IN  [m_length |-> WrapSize(fit.m_length + Len(s)),
         m_buffer |-> CopyAt(fit.m_buffer, fit.m_length, s)]

\* The integral types T, each of IntBits bits: a signed type of lower rank
\* than int (int8_t, int16_t), a signed type of the rank of int or above
\* (int, long, long long), and an unsigned type.
Types == {"narrow", "wide", "unsigned"}

Signed(T) == T \in {"narrow", "wide"}

IntMod == 2 ^ IntBits

Values(T) ==
    IF Signed(T) THEN (-(IntMod \div 2))..(IntMod \div 2 - 1)
    ELSE 0..(IntMod - 1)

\* The minimum of the signed type, -2^(IntBits-1).
IntMin == -(IntMod \div 2)

\* C++ integer division truncates toward zero; the divisor is 10.
CDiv(a, b) == IF a >= 0 THEN a \div b ELSE -((-a) \div b)

\* C++ remainder: a - (a / b) * b, with the sign of a.
CMod(a, b) == a - b * CDiv(a, b)

\* Conversion of an int to the signed T: the value modulo 2^IntBits.
ToSigned(x) == ((x - IntMin) % IntMod) + IntMin

\* What number holds after `if constexpr (is_signed) number = std::abs(number)`.
\* A narrow T is promoted to int, std::abs(int) is exact and the result is
\* converted back to T.  For a wide T std::abs of the minimum overflows, which
\* is undefined: builds leave the minimum itself (the negation wraps) or go on
\* with its magnitude (the optimiser takes the result for non-negative).
Magnitudes(T, number) ==
    IF T = "unsigned" THEN {number}
    ELSE IF T = "narrow"
         THEN {ToSigned(IF number < 0 THEN -number ELSE number)}
         ELSE IF number = IntMin THEN {IntMin, -IntMin}
              ELSE {IF number < 0 THEN -number ELSE number}

\* while (number) { number /= 10; ++digits; } of count_digits.
RECURSIVE CountLoop(_, _)
CountLoop(number, digits) ==
    IF number = 0 THEN digits
    ELSE CountLoop(CDiv(number, 10), digits + 1)

\* count_digits without the slot for the sign.
count_digits_unsigned(T, number) == CountLoop(number, 0)

count_digits(T, number) ==
    CountLoop(number, IF Signed(T) /\ number < 0 THEN 1 ELSE 0)

\* while (number) { *start-- = (number % 10) + '0'; number /= 10; } of
\* push(T): start is the offset written next, counted from 1.
RECURSIVE DigitLoop(_, _, _)
DigitLoop(storage, start, number) ==
    IF number = 0 THEN [storage |-> storage, start |-> start]
    ELSE DigitLoop([storage EXCEPT ![start] = CMod(number, 10) + 48],
                   start - 1, CDiv(number, 10))

\* push(T number), mag being what number holds when the digit loop starts.
push_number(buf, T, number, mag) ==
    LET ndigits  == count_digits(T, number)
        fit      == ensure_fit(buf, ndigits)
        len      == WrapSize(fit.m_length + ndigits)
        negative == Signed(T) /\ number < 0
        done     == DigitLoop(fit.m_buffer, len, mag)
    IN  [m_length |-> len,
         m_buffer |-> IF negative
                      THEN [done.storage EXCEPT ![done.start] = 45]
                      ELSE done.storage]

\* pop without the copy.
PopCopyNone(storage, len, n, g) == storage

\* std::copy(head() + n, tail(), head()) of pop: offset i takes the byte at
\* offset i + n; a read past the storage yields the byte g.
PopCopy(storage, len, n, g) ==
    [i \in 1..Len(storage) |->
        IF i <= len - n
        THEN (IF i + n <= Len(storage) THEN storage[i + n] ELSE g)
        ELSE storage[i]]

\* A pop that leaves the buffer alone when told to remove all of it.
pop_keep_all(buf, n, g) ==
    IF n >= buf.m_length THEN buf
    ELSE [m_length |-> buf.m_length - n,
          m_buffer |-> PopCopy(buf.m_buffer, buf.m_length, n, g)]

\* pop(const std::size_t n)
pop(buf, n, g) ==
    IF n >= buf.m_length THEN [buf EXCEPT !.m_length = 0]
    ELSE [m_length |-> buf.m_length - n,
          m_buffer |-> PopCopy(buf.m_buffer, buf.m_length, n, g)]

\* std::string_view::npos
npos == SIZE_MAX

\* std::string_view::find(str, pos) over the bytes v: the first offset
\* i >= pos at which str lies inside v, npos when there is none.
RECURSIVE SvFind(_, _, _)
SvFind(v, str, i) ==
    IF i + Len(str) > Len(v) THEN npos
    ELSE IF SubSeq(v, i + 1, i + Len(str)) = str THEN i
    ELSE SvFind(v, str, i + 1)

\* A find that searches the whole storage.
find_in_storage(buf, str, pos) == SvFind(buf.m_buffer, str, pos)

\* find(str, pos): view().find(str, pos)
find(buf, str, pos) == SvFind(view(buf), str, pos)

\* A clear that gives the storage back as well.
clear_release(buf) == [m_length |-> 0, m_buffer |-> <<>>]

\* clear()
clear(buf) == [buf EXCEPT !.m_length = 0]

\* A drop_memory that forgets to reset the length.
drop_memory_keep_length(buf) == [buf EXCEPT !.m_buffer = <<>>]

\* drop_memory(): m_buffer.clear(); m_buffer.shrink_to_fit(); m_length = 0
drop_memory(buf) == [m_length |-> 0, m_buffer |-> <<>>]

\* A move that takes the storage and not the length.
MoveTargetStorage(src) == [m_length |-> 0, m_buffer |-> src.m_buffer]

\* Buffer(Buffer&&) = default, operator=(Buffer&&) = default: what the
\* destination holds afterwards.
MoveTarget(src) == [m_length |-> src.m_length, m_buffer |-> src.m_buffer]

\* ... and what is left in the source: the vector is moved from (empty),
\* the std::size_t member is copied and keeps its value.
MoveSource(src) == [m_length |-> src.m_length, m_buffer |-> <<>>]

\* A copy that takes the storage and not the length.
CopyTargetStorage(src) == [m_length |-> 0, m_buffer |-> src.m_buffer]

\* Buffer(const Buffer&) = default, operator=(const Buffer&) = default.
CopyTarget(src) == [m_length |-> src.m_length, m_buffer |-> src.m_buffer]

SlicesTo(len) == UNION {[1..k -> Alphabet] : k \in 0..len}

Slices == SlicesTo(MaxSlice)

\* The numbers pushed in Spec and in SpecMove; SpecInt pushes every value.
IntSamples == {0, 1, 2, -1, 12, -12}

MoveSamples == {0, 2}

\* The arguments of pop and ensure_fit: the small ones and the largest.
SizeArgs(limit) == (0..limit) \cup {SIZE_MAX}

\* The bytes a read past the storage may find.
Garbage == {0} \cup Alphabet

NotOnly == [only |-> FALSE, cat |-> <<>>, cap0 |-> 0]

Fresh(buf) == [only |-> TRUE, cat |-> <<>>, cap0 |-> capacity(buf)]

\* The states a Buffer is in after construction, one push and one pop.
Started ==
    {pop(push(Buffer(c), s), k, 0) : c \in 0..2, s \in Slices, k \in 0..1}

\* Spec: A constructed with any capacity the allocator grants.
Init ==
    /\ bufs \in [Names -> {Buffer(c) : c \in 0..MaxCap}]
    /\ bufs["B"] = Buffer(0)
    /\ crashed = FALSE
    /\ max_size = MaxCap
    /\ last = [op |-> "construct", b |-> "A", arg |-> 0, pre |-> Buffer(0)]
    /\ pushed = [n \in Names |-> Fresh(bufs[n])]

\* SpecMove: A and B constructed with any capacity the allocator grants.
InitMove ==
    /\ bufs \in [Names -> {Buffer(c) : c \in 0..MaxCapMove}]
    /\ crashed = FALSE
    /\ max_size = MaxCapMove
    /\ last = [op |-> "construct", b |-> "A", arg |-> 0, pre |-> Buffer(0)]
    /\ pushed = [n \in Names |-> Fresh(bufs[n])]

\* SpecInt: A holds some content, with or without stale bytes behind it.
InitInt ==
    /\ bufs \in [Names -> Started]
    /\ bufs["B"] = Buffer(0)
    /\ crashed = FALSE
    /\ max_size = MaxCapInt
    /\ last = [op |-> "start", b |-> "A", arg |-> 0, pre |-> Buffer(0)]
    /\ pushed = [n \in Names |-> NotOnly]

\* push of a slice; last.after tells whether it directly follows a clear()
\* or a drop_memory() of the same buffer.
\* SpecView: A constructed with any capacity up to MaxCapView.
InitView ==
    /\ bufs \in [Names -> {Buffer(c) : c \in 0..MaxCapView}]
    /\ bufs["B"] = Buffer(0)
    /\ crashed = FALSE
    /\ max_size = MaxCapView
    /\ last = [op |-> "construct", b |-> "A", arg |-> capacity(bufs["A"]),
               pre |-> Buffer(0)]
    /\ pushed = [n \in Names |-> Fresh(bufs[n])]

\* Buffer n(cap): a new Buffer in the place of the one n named.
Construct(n, cap) ==
    /\ ~crashed
    /\ bufs' = [bufs EXCEPT ![n] = Buffer(cap)]
    /\ last' = [op |-> "construct", b |-> n, arg |-> cap, pre |-> bufs[n]]
    /\ pushed' = [pushed EXCEPT ![n] = Fresh(Buffer(cap))]
    /\ UNCHANGED <<crashed, max_size>>

\* Buffer n: the constructor's default argument.
ConstructDefault(n) ==
    /\ ~crashed
    /\ bufs' = [bufs EXCEPT ![n] = Buffer(DefaultCapacity)]
    /\ last' = [op |-> "construct_default", b |-> n, arg |-> 0,
                pre |-> bufs[n]]
    /\ pushed' = [pushed EXCEPT ![n] = Fresh(Buffer(DefaultCapacity))]
    /\ UNCHANGED <<crashed, max_size>>

PushSlice(n, s) ==
    /\ ~crashed
    /\ FitGranted(bufs[n], Len(s), max_size)
    /\ bufs' = [bufs EXCEPT ![n] = push(bufs[n], s)]
    /\ last' = [op |-> "push", b |-> n, arg |-> s, pre |-> bufs[n],
                after |-> IF last.b = n /\ last.op \in {"clear", "drop_memory"}
                          THEN last.op ELSE "other"]
    /\ pushed' = [pushed EXCEPT ![n] =
                    IF @.only THEN [@ EXCEPT !.cat = @ \o s] ELSE @]
    /\ UNCHANGED <<crashed, max_size>>

PushInt(n, T, v) ==
    /\ ~crashed
    /\ FitGranted(bufs[n], count_digits(T, v), max_size)
    /\ \E mag \in Magnitudes(T, v) :
            bufs' = [bufs EXCEPT ![n] = push_number(bufs[n], T, v, mag)]
    /\ last' = [op |-> "push_number", b |-> n, arg |-> <<T, v>>,
                pre |-> bufs[n]]
    /\ pushed' = [pushed EXCEPT ![n] = NotOnly]
    /\ UNCHANGED <<crashed, max_size>>

\* pop on a buffer whose bytes [n, m_length) lie inside the storage, or
\* with n >= m_length, where nothing is copied.
Pop(n, k) ==
    /\ ~crashed
    /\ k >= bufs[n].m_length \/ InStorage(bufs[n])
    /\ bufs' = [bufs EXCEPT ![n] = pop(bufs[n], k, 0)]
    /\ last' = [op |-> "pop", b |-> n, arg |-> k, pre |-> bufs[n]]
    /\ pushed' = [pushed EXCEPT ![n] = NotOnly]
    /\ UNCHANGED <<crashed, max_size>>

\* pop copying from past the end of the storage (m_length > capacity()):
\* undefined behaviour.  The process dies, or, when there is storage at
\* all, the copy goes through and reads whatever bytes lie behind it.
PopOutside(n, k) ==
    /\ ~crashed
    /\ k < bufs[n].m_length /\ ~InStorage(bufs[n])
    /\ \/ /\ crashed' = TRUE
          /\ UNCHANGED bufs
       \/ /\ capacity(bufs[n]) > 0
          /\ \E g \in Garbage : bufs' = [bufs EXCEPT ![n] = pop(bufs[n], k, g)]
          /\ UNCHANGED crashed
    /\ last' = [op |-> "pop", b |-> n, arg |-> k, pre |-> bufs[n]]
    /\ pushed' = [pushed EXCEPT ![n] = NotOnly]
    /\ UNCHANGED max_size

Clear(n) ==
    /\ ~crashed
    /\ bufs' = [bufs EXCEPT ![n] = clear(bufs[n])]
    /\ last' = [op |-> "clear", b |-> n, arg |-> 0, pre |-> bufs[n]]
    /\ pushed' = [pushed EXCEPT ![n] = NotOnly]
    /\ UNCHANGED <<crashed, max_size>>

DropMemory(n) ==
    /\ ~crashed
    /\ bufs' = [bufs EXCEPT ![n] = drop_memory(bufs[n])]
    /\ last' = [op |-> "drop_memory", b |-> n, arg |-> 0, pre |-> bufs[n]]
    /\ pushed' = [pushed EXCEPT ![n] = NotOnly]
    /\ UNCHANGED <<crashed, max_size>>

EnsureFit(n, k) ==
    /\ ~crashed
    /\ FitGranted(bufs[n], k, max_size)
    /\ bufs' = [bufs EXCEPT ![n] = ensure_fit(bufs[n], k)]
    /\ last' = [op |-> "ensure_fit", b |-> n, arg |-> k, pre |-> bufs[n]]
    /\ pushed' = [pushed EXCEPT ![n] = NotOnly]
    /\ UNCHANGED <<crashed, max_size>>

\* find(str, pos): last.result is what it returned.
Find(n, str, pos) ==
    /\ ~crashed
    /\ last' = [op |-> "find", b |-> n, arg |-> <<str, pos>>, pre |-> bufs[n],
                result |-> find(bufs[n], str, pos)]
    /\ pushed' = pushed
    /\ UNCHANGED <<bufs, crashed, max_size>>

\* buff.pop(buff.find(str))
PopFind(n, str) ==
    /\ ~crashed
    /\ InStorage(bufs[n])
    /\ bufs' = [bufs EXCEPT ![n] = pop(bufs[n], find(bufs[n], str, 0), 0)]
    /\ last' = [op |-> "pop_find", b |-> n, arg |-> str, pre |-> bufs[n],
                result |-> find(bufs[n], str, 0)]
    /\ pushed' = [pushed EXCEPT ![n] = NotOnly]
    /\ UNCHANGED <<crashed, max_size>>

\* push(head(), k) with k <= length(); k = length() is push(view()).  When
\* ensure_fit resizes, the vector may move its elements and free the old
\* block, and std::copy then reads from a dangling ptr: the bytes are still
\* the old ones (the vector had room, or the freed block is intact), or
\* they are whatever the allocator left there, or the process dies.
PushSelf(n, k) ==
    /\ ~crashed
    /\ InStorage(bufs[n]) /\ k <= bufs[n].m_length
    /\ FitGranted(bufs[n], k, max_size)
    /\ LET src == SubSeq(bufs[n].m_buffer, 1, k)
       IN  IF NewCapacity(bufs[n], k) > capacity(bufs[n])
           THEN \/ /\ \E read \in {src} \cup [1..k -> Garbage] :
                        bufs' = [bufs EXCEPT ![n] = push(bufs[n], read)]
                   /\ UNCHANGED crashed
                \/ /\ crashed' = TRUE
                   /\ UNCHANGED bufs
           ELSE /\ bufs' = [bufs EXCEPT ![n] = push(bufs[n], src)]
                /\ UNCHANGED crashed
    /\ last' = [op |-> "push_self", b |-> n, arg |-> k, pre |-> bufs[n]]
    /\ pushed' = [pushed EXCEPT ![n] = NotOnly]
    /\ UNCHANGED max_size

\* n = std::move(m), m being the other buffer; last.pre is what m held.
\* Buffer n(std::move(m)) constructs n with what the assignment leaves in it.
Move(n) ==
    /\ ~crashed
    /\ bufs' = [bufs EXCEPT ![n] = MoveTarget(bufs[Other(n)]),
                            ![Other(n)] = MoveSource(bufs[Other(n)])]
    /\ last' = [op |-> "move", b |-> n, arg |-> 0, pre |-> bufs[Other(n)]]
    /\ pushed' = [m \in Names |-> NotOnly]
    /\ UNCHANGED <<crashed, max_size>>

\* n = m, m being the other buffer; Buffer n(m) constructs n likewise.
Copy(n) ==
    /\ ~crashed
    /\ bufs' = [bufs EXCEPT ![n] = CopyTarget(bufs[Other(n)])]
    /\ last' = [op |-> "copy", b |-> n, arg |-> 0, pre |-> bufs[Other(n)]]
    /\ pushed' = [pushed EXCEPT ![n] = NotOnly]
    /\ UNCHANGED <<crashed, max_size>>

Next ==
    \/ \E s \in Slices : PushSlice("A", s)
    \/ \E T \in Types : \E v \in IntSamples \cap Values(T) : PushInt("A", T, v)
    \/ \E k \in SizeArgs(max_size) : Pop("A", k)
    \/ Clear("A")
    \/ DropMemory("A")
    \/ \E k \in SizeArgs(max_size) : EnsureFit("A", k)

NextMove ==
    \E n \in Names :
        \/ \E s \in SlicesTo(MaxSliceMove) : PushSlice(n, s)
        \/ \E v \in MoveSamples : PushInt(n, "wide", v)
        \/ \E k \in SizeArgs(MaxSliceMove) : Pop(n, k)
        \/ \E k \in SizeArgs(MaxSliceMove) : PopOutside(n, k)
        \/ Clear(n)
        \/ DropMemory(n)
        \/ \E k \in SizeArgs(max_size) : EnsureFit(n, k)
        \/ Move(n)
        \/ Copy(n)

\* One push(T number) onto the started buffer, for every T and every value.
NextInt ==
    /\ last.op = "start"
    /\ \E T \in Types : \E v \in Values(T) : PushInt("A", T, v)

\* Content is kept to MaxCapView bytes, whatever the capacity.
NextView ==
    \/ \E c \in 0..MaxCapView : Construct("A", c)
    \/ ConstructDefault("A")
    \/ \E s \in Slices :
            /\ length(bufs["A"]) + Len(s) <= MaxCapView
            /\ PushSlice("A", s)
    \/ \E k \in SizeArgs(MaxCapView) : Pop("A", k)
    \/ Clear("A")
    \/ \E str \in Slices : \E pos \in SizeArgs(MaxCapView + 1) :
            Find("A", str, pos)
    \/ \E str \in Slices : PopFind("A", str)
    \/ \E k \in 0..MaxCapView :
            /\ length(bufs["A"]) + k <= MaxCapView
            /\ PushSelf("A", k)

Spec == Init /\ [][Next]_vars

SpecMove == InitMove /\ [][NextMove]_vars

SpecInt == InitInt /\ [][NextInt]_vars

SpecView == InitView /\ [][NextView]_vars
(***************************************************************************)
(* The properties.                                                         *)
(***************************************************************************)

SingleOps ==
    {"push", "push_number", "pop", "clear", "drop_memory", "ensure_fit"}

\* The decimal digits of a natural number, most significant first.
RECURSIVE Digits(_)
Digits(n) ==
    IF n < 10 THEN <<48 + n>> ELSE Digits(n \div 10) \o <<48 + (n % 10)>>

\* The canonical base-10 text: '-' iff negative, no '+', no leading zeros.
Decimal(v) == IF v < 0 THEN <<45>> \o Digits(-v) ELSE Digits(v)

\* C1: after any sequence of slice pushes onto a freshly constructed Buffer
\* of any initial capacity, view() is the concatenation of the slices in
\* order and length() is the sum of their lengths.
C1_PushConcatenates ==
    \A n \in Names :
        pushed[n].only =>
            /\ view(bufs[n]) = pushed[n].cat
            /\ length(bufs[n]) = Len(pushed[n].cat)

\* A second non-empty push that had to grow a Buffer constructed with
\* capacity 0, leaving both bytes in the view.
C1_Witness ==
    /\ pushed["A"].only /\ pushed["A"].cap0 = 0
    /\ last.op = "push" /\ last.b = "A"
    /\ last.pre.m_length > 0 /\ Len(last.arg) > 0
    /\ capacity(last.pre) < length(bufs["A"])
    /\ view(bufs["A"]) = <<49, 50, 50>>

\* C2: push(v) of a nonzero v other than the minimum of a signed type
\* appends the canonical base-10 text of v to the content, which is left
\* as it was, and length() grows by the length of that text.
C2_NonzeroCanonical ==
    (/\ last.op = "push_number"
     /\ last.arg[2] # 0
     /\ ~(Signed(last.arg[1]) /\ last.arg[2] = IntMin))
    => /\ view(bufs[last.b]) = view(last.pre) \o Decimal(last.arg[2])
       /\ length(bufs[last.b])
            = length(last.pre) + Len(Decimal(last.arg[2]))

\* A negative three-digit number pushed behind content, growing the storage.
C2_Witness ==
    /\ last.op = "push_number"
    /\ last.arg = <<"wide", IntMin + 1>>
    /\ last.pre.m_length > 0
    /\ capacity(bufs[last.b]) > capacity(last.pre)

\* C3: push(0) appends the single byte "0" and length() grows by 1.
C3_ZeroAppendsZero ==
    (last.op = "push_number" /\ last.arg[2] = 0)
    => /\ view(bufs[last.b]) = view(last.pre) \o <<48>>
       /\ length(bufs[last.b]) = length(last.pre) + 1

\* C4: push of the minimum of a signed type appends its canonical text,
\* '-' followed by the digits of 2^(IntBits-1).
C4_MinimumCanonical ==
    (last.op = "push_number" /\ Signed(last.arg[1]) /\ last.arg[2] = IntMin)
    => /\ view(bufs[last.b]) = view(last.pre) \o Decimal(IntMin)
       /\ \A i \in (length(last.pre) + 2)..length(bufs[last.b]) :
            view(bufs[last.b])[i] \in 48..57

\* C5: pop(n) with n <= L leaves the last L - n bytes of the content, in
\* order, at offset 0; pop(n) with n > L leaves the buffer empty; the
\* capacity is the same in both cases.
C5_Pop ==
    last.op = "pop" =>
        LET L == length(last.pre)
            C == view(last.pre)
            n == last.arg
        IN  /\ capacity(bufs[last.b]) = capacity(last.pre)
            /\ n <= L => /\ view(bufs[last.b]) = SubSeq(C, n + 1, L)
                         /\ length(bufs[last.b]) = L - n
            /\ n > L => /\ view(bufs[last.b]) = <<>>
                        /\ length(bufs[last.b]) = 0

\* pop(1) of a three-byte content: two bytes are shifted to the front.
C5_Witness ==
    /\ last.op = "pop" /\ last.arg = 1
    /\ view(last.pre) = <<49, 50, 49>>
    /\ view(bufs[last.b]) = <<50, 49>>

\* C6: after a move the source is empty: length() is 0, view() is empty
\* and length() <= capacity().
C6_SourceEmptied ==
    last.op = "move" =>
        LET src == bufs[Other(last.b)]
        IN  /\ length(src) = 0
            /\ view(src) = <<>>
            /\ length(src) <= capacity(src)

\* C7: a move gives the destination the source's view, length and capacity
\* (whatever the destination held), and no later operation on one buffer
\* changes the view of the other.
C7_MoveTransfers ==
    [][LET n == last'.b
       IN  /\ last'.op = "move" =>
                /\ view(bufs'[n]) = view(bufs[Other(n)])
                /\ length(bufs'[n]) = length(bufs[Other(n)])
                /\ capacity(bufs'[n]) = capacity(bufs[Other(n)])
           /\ last'.op \in SingleOps =>
                view(bufs'[Other(n)]) = view(bufs[Other(n)])]_vars

\* A push onto A after A, holding "2", was moved into B: A is the buffer
\* the move left without storage, and B still shows "2".
C7_Witness ==
    /\ last.op = "push" /\ last.b = "A" /\ last.arg = <<49>>
    /\ last.pre = [m_length |-> 1, m_buffer |-> <<>>]
    /\ view(bufs["B"]) = <<50>>
    /\ capacity(bufs["B"]) = 2

\* C8: in every reachable state length() <= capacity(), and remaining() is
\* capacity() - length().
C8_LengthWithinCapacity ==
    \A n \in Names :
        /\ length(bufs[n]) <= capacity(bufs[n])
        /\ remaining(bufs[n]) = capacity(bufs[n]) - length(bufs[n])

\* C9 as claimed: the capacity of a Buffer never decreases across a step
\* other than drop_memory on it.
C9_OnlyDropShrinks ==
    [][\A n \in Names :
         ~(last'.op = "drop_memory" /\ last'.b = n)
         => capacity(bufs'[n]) >= capacity(bufs[n])]_vars

\* C9 as amended: the capacity of a Buffer never decreases across push,
\* pop, clear or ensure_fit, on it or on the other buffer.
C9_SingleOpsKeepCapacity ==
    [][last'.op \in SingleOps \ {"drop_memory"} =>
         \A n \in Names : capacity(bufs'[n]) >= capacity(bufs[n])]_vars

\* A push that grew storage the buffer already had.
C9_Witness ==
    /\ last.op = "push"
    /\ capacity(bufs[last.b]) > capacity(last.pre)
    /\ capacity(last.pre) > 0

\* C10: after ensure_fit(n), remaining() >= n; the capacity is L + n if
\* L + n > K and K otherwise; length and content are as before.
C10_EnsureFit ==
    last.op = "ensure_fit" =>
        LET L == length(last.pre)
            K == capacity(last.pre)
            n == last.arg
        IN  /\ remaining(bufs[last.b]) >= n
            /\ capacity(bufs[last.b]) = (IF L + n > K THEN L + n ELSE K)
            /\ length(bufs[last.b]) = L
            /\ view(bufs[last.b]) = view(last.pre)

\* C11: clear() sets length() to 0 and view() to empty and leaves capacity()
\* unchanged; a push of k bytes right after it, with k <= that capacity,
\* leaves capacity() still unchanged and view() equal to the k pushed bytes.
C11_ClearKeepsCapacity ==
    /\ last.op = "clear" =>
            /\ length(bufs[last.b]) = 0
            /\ view(bufs[last.b]) = <<>>
            /\ capacity(bufs[last.b]) = capacity(last.pre)
    /\ (/\ last.op = "push"
        /\ last.after = "clear"
        /\ Len(last.arg) <= capacity(last.pre)) =>
            /\ capacity(bufs[last.b]) = capacity(last.pre)
            /\ view(bufs[last.b]) = last.arg

\* Two bytes pushed over the two stale bytes a clear() of a full Buffer of
\* capacity 2 left behind.
C11_Witness ==
    /\ last.op = "push" /\ last.after = "clear"
    /\ last.pre = [m_length |-> 0, m_buffer |-> <<49, 49>>]
    /\ last.arg = <<50, 50>>
    /\ view(bufs["A"]) = <<50, 50>>
    /\ capacity(bufs["A"]) = 2

\* C13: drop_memory() on a buffer in any state sets capacity() and length()
\* to 0, and the buffer stays usable: a push of slice s right after it
\* yields view() == s and length() == Len(s).
C13_DropMemory ==
    /\ last.op = "drop_memory" =>
            /\ capacity(bufs[last.b]) = 0
            /\ length(bufs[last.b]) = 0
    /\ (last.op = "push" /\ last.after = "drop_memory") =>
            /\ view(bufs[last.b]) = last.arg
            /\ length(bufs[last.b]) = Len(last.arg)

\* A byte pushed right after drop_memory(), onto no storage at all.
C13_Witness ==
    /\ last.op = "push" /\ last.after = "drop_memory"
    /\ last.pre = [m_length |-> 0, m_buffer |-> <<>>]
    /\ last.arg = <<49>>
    /\ view(bufs[last.b]) = <<49>>
    /\ capacity(bufs[last.b]) = 1

\* C17: a freshly constructed Buffer has length() == 0, an empty view() and
\* capacity() equal to the requested capacity, DefaultCapacity when none is
\* given, for every requested capacity including 0.
C17_FreshBuffer ==
    /\ last.op \in {"construct", "construct_default"} =>
            /\ length(bufs[last.b]) = 0
            /\ view(bufs[last.b]) = <<>>
    /\ last.op = "construct" => capacity(bufs[last.b]) = last.arg
    /\ last.op = "construct_default" =>
            capacity(bufs[last.b]) = DefaultCapacity

\* A Buffer constructed without an argument where one with content was.
C17_Witness ==
    /\ last.op = "construct_default"
    /\ length(last.pre) > 0
    /\ capacity(bufs["A"]) = 256
    /\ length(bufs["A"]) = 0

\* C12: find(needle, start_pos) returns the smallest offset i >= start_pos
\* at which needle lies within view(), and SIZE_MAX when there is none;
\* bytes at or beyond length() take no part, and the buffer is unchanged.
C12_Find ==
    last.op = "find" =>
        LET v == view(last.pre)
            needle == last.arg[1]
            start_pos == last.arg[2]
            Hits == {i \in start_pos..Len(v) :
                        /\ i + Len(needle) <= Len(v)
                        /\ \A j \in 1..Len(needle) : v[i + j] = needle[j]}
        IN  /\ bufs[last.b] = last.pre
            /\ IF Hits = {} THEN last.result = SIZE_MAX
               ELSE /\ last.result \in Hits
                    /\ \A h \in Hits : last.result <= h

\* find("12") on content "1" whose storage goes on with a stale '2':
\* not found.
C12_Witness ==
    /\ last.op = "find"
    /\ last.pre = [m_length |-> 1, m_buffer |-> <<49, 50>>]
    /\ last.arg = <<(<<49, 50>>), 0>>
    /\ last.result = SIZE_MAX

\* C18: pop(find(needle)) on content C leaves C[i:] when needle first
\* occurs at offset i (the view then starts with needle); when needle does
\* not occur, find returns SIZE_MAX and the pop leaves the view empty.
C18_PopFind ==
    last.op = "pop_find" =>
        LET C == view(last.pre)
            needle == last.arg
            Occ == {i \in 0..Len(C) :
                        /\ i + Len(needle) <= Len(C)
                        /\ \A j \in 1..Len(needle) : C[i + j] = needle[j]}
            now == view(bufs[last.b])
        IN  IF Occ # {}
            THEN LET i == CHOOSE o \in Occ : \A h \in Occ : o <= h
                 IN  /\ now = SubSeq(C, i + 1, Len(C))
                     /\ SubSeq(now, 1, Len(needle)) = needle
            ELSE /\ last.result = SIZE_MAX
                 /\ now = <<>>
                 /\ length(bufs[last.b]) = 0

\* pop(find("21")) on "121" leaves "21".
C18_Witness ==
    /\ last.op = "pop_find"
    /\ view(last.pre) = <<49, 50, 49>>
    /\ last.arg = <<50, 49>>
    /\ last.result = 1
    /\ view(bufs["A"]) = <<50, 49>>

\* C19: pushing a slice of the buffer's own bytes, push(head(), k) with
\* k <= length(), leaves view() equal to the content followed by a copy of
\* the slice, whether the bytes fit in remaining() or the storage grows.
C19_AliasedPush ==
    last.op = "push_self" =>
        /\ ~crashed
        /\ view(bufs[last.b]) =
                view(last.pre) \o SubSeq(view(last.pre), 1, last.arg)

\* C14: copying A into B makes B.view() == A.view() and B.length() ==
\* A.length() and leaves A unchanged; a push, pop, clear or drop_memory on
\* one buffer leaves the other's view(), length() and capacity() unchanged.
C14_CopyIndependent ==
    [][/\ last'.op = "copy" =>
            LET src == Other(last'.b)
            IN  /\ view(bufs'[last'.b]) = view(bufs[src])
                /\ length(bufs'[last'.b]) = length(bufs[src])
                /\ bufs'[src] = bufs[src]
       /\ last'.op \in {"push", "push_number", "pop", "clear", "drop_memory"} =>
            LET other == Other(last'.b)
            IN  /\ view(bufs'[other]) = view(bufs[other])
                /\ length(bufs'[other]) = length(bufs[other])
                /\ capacity(bufs'[other]) = capacity(bufs[other])]_vars

\* B just copied from A, both holding "12".
C14_Witness ==
    /\ last.op = "copy" /\ last.b = "B"
    /\ view(last.pre) = <<49, 50>>
    /\ view(bufs["A"]) = <<49, 50>>
    /\ view(bufs["B"]) = <<49, 50>>

\* C15: push(c) of a single character c, a value of the integral type char,
\* appends the one byte c: the view is the content followed by c and the
\* length grows by 1.
C15_PushChar ==
    (/\ last.op = "push_number"
     /\ last.arg[1] \in {"narrow", "unsigned"}
     /\ last.arg[2] \in 1..127) =>
        /\ view(bufs[last.b]) = view(last.pre) \o <<last.arg[2]>>
        /\ length(bufs[last.b]) = length(last.pre) + 1

\* What an operation makes of the plain byte sequence C: a push appends,
\* pop(n) drops the first min(n, Len(C)) bytes, clear and drop_memory empty.
Abstract(C, op, arg) ==
    CASE op = "push" -> C \o arg
      [] op = "push_number" -> C \o Decimal(arg[2])
      [] op = "pop" -> SubSeq(C, (IF arg < Len(C) THEN arg ELSE Len(C)) + 1,
                              Len(C))
      [] OTHER -> <<>>

\* C16: across every push (of a slice or of an integer), pop(n), clear()
\* and drop_memory(), view() goes from the plain sequence before the
\* operation to the plain sequence after it, and length() is its length;
\* no byte of storage[length, capacity) shows in view().
C16_RefinesSequence ==
    last.op \in {"push", "push_number", "pop", "clear", "drop_memory"} =>
        /\ view(bufs[last.b]) = Abstract(view(last.pre), last.op, last.arg)
        /\ length(bufs[last.b]) =
                Len(Abstract(view(last.pre), last.op, last.arg))
====
